---- MODULE Spec2Model ----
(***************************************************************************)
(* STL / MSTL decomposition (src/include/stl.hpp, src/include/mstl.hpp).   *)
(*                                                                         *)
(* Numbers of type T (float/double) are fixed-point integers in units of   *)
(* 1/Scale; the three non-finite IEEE values are the constants NaN, PInf   *)
(* and NInf.  Quotients of numbers are rounded to the nearest unit (RDiv). *)
(* Positions, lengths and counters (size_t, int) are plain integers and    *)
(* their quotients are the integer quotients of the code (\div).           *)
(* A C++ array a[0..m-1] is the sequence <<a[0], ..., a[m-1]>>, so the     *)
(* code's a[j - 1] is written a[j] here.                                   *)
(***************************************************************************)
EXTENDS Integers, Sequences, FiniteSets, TLC

\* ---------------------------------------------------------------- numbers

Scale == 1000
NaN == 2000000001
PInf == 2000000002
NInf == 2000000003

IsFinite(a) == a # NaN /\ a # PInf /\ a # NInf

\* The array f as a sequence, every element computed once
Vec(f) == f \o <<>>

\* F(v) with v computed once, before F is: a local variable of the code.
\* (TLC computes a LET definition or an argument again at each of its uses.)
With(v, F(_)) == CHOOSE r \in {F(x) : x \in {v}} : TRUE

Min(a, b) == IF a <= b THEN a ELSE b
Max(a, b) == IF a >= b THEN a ELSE b
Abs(a) == IF a < 0 THEN -a ELSE a

\* a / b for b > 0, rounded to the nearest integer
RDiv(a, b) == (2 * a + b) \div (2 * b)

\* a * b of two values in units of 1 / Scale: RDiv(a * b, Scale), computed
\* from the quotients and remainders by Scale so that no partial product
\* leaves the range of the integers
MulS(a, b) ==
  LET a1 == a \div Scale
      a0 == a % Scale
      b1 == b \div Scale
      b0 == b % Scale
  IN a1 * b1 * Scale + a1 * b0 + a0 * b1 + RDiv(a0 * b0, Scale)

\* a + b
FAdd(a, b) ==
  IF a = NaN \/ b = NaN THEN NaN
  ELSE IF a = PInf THEN (IF b = NInf THEN NaN ELSE PInf)
  ELSE IF a = NInf THEN (IF b = PInf THEN NaN ELSE NInf)
  ELSE IF b = PInf \/ b = NInf THEN b
  ELSE a + b

\* -a
FNeg(a) ==
  IF a = NaN THEN NaN
  ELSE IF a = PInf THEN NInf
  ELSE IF a = NInf THEN PInf
  ELSE -a

\* a - b
FSub(a, b) == FAdd(a, FNeg(b))

\* fabs(a)
FAbs(a) ==
  IF a = NaN THEN NaN
  ELSE IF a = PInf \/ a = NInf THEN PInf
  ELSE Abs(a)

\* w * a for a finite fixed-point w
FMul(w, a) ==
  IF a = NaN THEN NaN
  ELSE IF a = PInf \/ a = NInf
    THEN (IF w = 0 THEN NaN ELSE IF w > 0 THEN a ELSE FNeg(a))
  ELSE MulS(w, a)

\* k * a for an integer count k
FMulI(k, a) ==
  IF a = NaN THEN NaN
  ELSE IF a = PInf \/ a = NInf
    THEN (IF k = 0 THEN NaN ELSE IF k > 0 THEN a ELSE FNeg(a))
  ELSE k * a

\* a / k for an integer count k > 0
FDivI(a, k) == IF IsFinite(a) THEN RDiv(a, k) ELSE a

\* a <= b
FLe(a, b) ==
  IF a = NaN \/ b = NaN THEN FALSE
  ELSE IF a = NInf \/ b = PInf THEN TRUE
  ELSE IF a = PInf \/ b = NInf THEN FALSE
  ELSE a <= b

\* a == b
FEq(a, b) == IF a = NaN \/ b = NaN THEN FALSE ELSE a = b

RECURSIVE FSum(_, _, _)
\* f[lo] + ... + f[hi], added left to right
FSum(f, lo, hi) ==
  IF hi < lo THEN 0 ELSE With(FSum(f, lo, hi - 1), LAMBDA v : FAdd(v, f[hi]))

RECURSIVE ISum(_, _, _)
\* the same for integers
ISum(f, lo, hi) == IF hi < lo THEN 0 ELSE ISum(f, lo, hi - 1) + f[hi]

\* ------------------------------------------------------------------- est

\* pow(1.0 - pow(r / h, 3), 3) for integers 0 < r <= h
TriCube(r, h) ==
  LET q == RDiv(r * Scale, h)
      q3 == RDiv(RDiv(q * q, Scale) * q, Scale)
      u == Scale - q3
  IN RDiv(RDiv(u * u, Scale) * u, Scale)

\* est: the local regression value at xs from y[nleft..nright].
\* Returns [ok |-> the code's return value, ys |-> *ys (meaningful when ok)].
\* The weights w[nleft - 1 .. nright - 1] are kept as w[1 .. nright - nleft + 1].
est(y, n, len, ideg, xs, nleft, nright, userw, rw) ==
  LET range == n - 1
      h0 == Max(xs - nleft, nright - xs)
      h == IF len > n THEN h0 + ((len - n) \div 2) ELSE h0
      m == nright - nleft + 1
      T == 1..m
  IN
  With(Vec([t \in T |->
         LET j == nleft + t - 1
             r == Abs(j - xs)
         IN IF 1000 * r <= 999 * h
              THEN LET k == IF 1000 * r <= h THEN Scale ELSE TriCube(r, h)
                   IN IF userw THEN RDiv(k * rw[j], Scale) ELSE k
              ELSE 0]), LAMBDA w0 :
  With(ISum(w0, 1, m), LAMBDA a :
    IF a <= 0 THEN [ok |-> FALSE, ys |-> 0]
    ELSE
      With(Vec([t \in T |-> RDiv(w0[t] * Scale, a)]), LAMBDA w1 :
      With(Vec([t \in T |-> w1[t] * (nleft + t - 1)]), LAMBDA wj :
      With(ISum(wj, 1, m), LAMBDA a2 :
      With(Vec([t \in T |->
             RDiv(w1[t] * RDiv(((nleft + t - 1) * Scale - a2)
                                * ((nleft + t - 1) * Scale - a2), Scale), Scale)]),
           LAMBDA wd :
      With(ISum(wd, 1, m), LAMBDA c :
      With(IF h > 0 /\ ideg > 0 /\ c * (1000000 \div Scale) > range * range
             THEN Vec([t \in T |->
                    MulS(w1[t], MulS(RDiv((xs * Scale - a2) * Scale, c),
                                     (nleft + t - 1) * Scale - a2) + Scale)])
             ELSE w1, LAMBDA w2 :
      With(Vec([t \in T |-> FMul(w2[t], y[nleft + t - 1])]), LAMBDA wy :
        [ok |-> TRUE, ys |-> FSum(wy, 1, m)])))))))))

\* ------------------------------------------------------------------- ess

\* est at position i with the fallback of the callers: ys[i - 1] = y[i - 1]
estAt(y, n, len, ideg, i, nleft, nright, userw, rw) ==
  With(est(y, n, len, ideg, i, nleft, nright, userw, rw), LAMBDA e :
    IF e.ok THEN e.ys ELSE y[i])

RECURSIVE essSlide(_, _, _, _)
\* <<nleft, nright>> after iteration i of the loop of the branch newnj == 1
essSlide(n, len, nsh, i) ==
  IF i = 0 THEN <<1, len>>
  ELSE With(essSlide(n, len, nsh, i - 1), LAMBDA p :
         IF i > nsh /\ p[2] # n THEN <<p[1] + 1, p[2] + 1>> ELSE p)

\* <<nleft, nright>> used by the fit at position i, by branch
essWindow(n, len, newnj, i) ==
  LET nsh == (len + 1) \div 2
  IN IF len >= n THEN <<1, n>>
     ELSE IF newnj = 1 THEN essSlide(n, len, nsh, i)
     ELSE IF i < nsh THEN <<1, len>>
     ELSE IF i >= n - nsh + 1 THEN <<n - len + 1, n>>
     ELSE <<i - nsh + 1, len + i - nsh>>

\* The evaluations est is called for, in order of the calls: <<i, nleft, nright>>.
\* The call after the interpolation loop reuses the window the loops left.
essEvals(n, len, njump) ==
  LET newnj == Min(njump, n - 1)
      k == ((n - 1) \div newnj) * newnj + 1
      m == ((n - 1) \div newnj) + 1
  IN With(Vec([t \in 1..m |->
            With(essWindow(n, len, newnj, (t - 1) * newnj + 1), LAMBDA win :
              <<(t - 1) * newnj + 1, win[1], win[2]>>)]), LAMBDA loop :
       IF newnj # 1 /\ k # n
         THEN Append(loop, <<n, loop[m][2], loop[m][3]>>)
         ELSE loop)

\* The value of ys[j - 1] when ess returns, from the fitted values
essInterpolate(fit, n, newnj, j) ==
  LET k == ((n - 1) \div newnj) * newnj + 1
      at(i) == IF i = n /\ k # n THEN fit[Len(fit)] ELSE fit[((i - 1) \div newnj) + 1]
  IN IF (j - 1) % newnj = 0 \/ j = n THEN at(j)
     ELSE IF j < k
       THEN LET i == ((j - 1) \div newnj) * newnj + 1
                delta == FDivI(FSub(at(i + newnj), at(i)), newnj)
            IN FAdd(at(i), FMulI(j - i, delta))
       ELSE LET delta == FDivI(FSub(at(n), at(k)), n - k)
            IN FAdd(at(k), FMulI(j - k, delta))

\* ess: the loess smoothing of y[1..n]; needs njump >= 1 when n >= 2
\* (with njump = 0 the loops never advance, see StlStep).
ess(y, n, len, ideg, njump, userw, rw) ==
  IF n < 2 THEN <<y[1]>>
  ELSE
    With(essEvals(n, len, njump), LAMBDA evals :
    With(Vec([t \in 1..Len(evals) |->
           estAt(y, n, len, ideg, evals[t][1], evals[t][2], evals[t][3], userw, rw)]),
         LAMBDA fit :
      Vec([j \in 1..n |-> essInterpolate(fit, n, Min(njump, n - 1), j)])))

\* ------------------------------------------------------------- ma and fts

RECURSIVE maRun(_, _, _)
\* the running sum v after step j of the loop of ma
maRun(x, len, j) ==
  IF j = 0 THEN FSum(x, 1, len)
  ELSE With(maRun(x, len, j - 1), LAMBDA v : FAdd(FSub(v, x[j]), x[len + j]))

\* ma: the n - len + 1 moving averages of x[1..n]
ma(x, n, len) ==
  LET newn == n - len + 1
  IN Vec([j \in 1..newn |-> FDivI(maRun(x, len, j - 1), len)])

\* fts: moving averages of length np, np and 3
fts(x, n, np) ==
  With(ma(x, n, np), LAMBDA trend :
  With(ma(trend, n - np + 1, np), LAMBDA work :
    ma(work, n - 2 * np + 2, 3)))

\* ------------------------------------------------------------------ rwts

\* r <= (num / 1000) * cmad, for r = fabs(..) and cmad a sum of such values
FLeFrac(r, num, cmad) ==
  IF r = NaN \/ cmad = NaN THEN FALSE
  ELSE IF cmad = PInf THEN TRUE
  ELSE IF r = PInf THEN FALSE
  ELSE 1000 * r <= num * cmad

\* a < b as std::sort compares two values none of which is NaN
FLt(a, b) == ~FLe(b, a)

\* pow(1.0 - pow(r / cmad, 2), 2) for finite 0 < r <= cmad
BiSquare(r, cmad) ==
  LET q == RDiv(r * Scale, cmad)
      u == Scale - RDiv(q * q, Scale)
  IN RDiv(u * u, Scale)

\* rw[mid1] + rw[mid2] after std::sort(rw, rw + n).  With a NaN among the
\* values the comparison is no strict weak ordering and the order std::sort
\* leaves is unspecified: o.p and o.q name the values that end up at mid1, mid2.
rwtsMid(r, n, o) ==
  LET mid1 == (n - 1) \div 2
      mid2 == n \div 2
  IN IF \E i \in 1..n : r[i] = NaN
       THEN FAdd(r[o.p], r[IF mid1 = mid2 THEN o.p ELSE o.q])
       ELSE With(SortSeq(r, FLt), LAMBDA s : FAdd(s[mid1 + 1], s[mid2 + 1]))

\* rwts: the robustness weights of the fit, for n >= 1
rwts(y, n, fit, o) ==
  With(Vec([i \in 1..n |-> FAbs(FSub(y[i], fit[i]))]), LAMBDA r :
  With(FMulI(3, rwtsMid(r, n, o)), LAMBDA cmad :
    Vec([i \in 1..n |->
      IF FLeFrac(r[i], 1, cmad) THEN Scale
      ELSE IF FLeFrac(r[i], 999, cmad) THEN BiSquare(r[i], cmad)
      ELSE 0])))

\* -------------------------------------------------------------------- ss

\* The k + 2 values work2[0..k+1] of the cyclic sub-series of phase j
ssPhase(y, n, np, ns, isdeg, nsjump, userw, rw, j) ==
  LET k == ((n - j) \div np) + 1 IN
  With(Vec([i \in 1..k |-> y[(i - 1) * np + j]]), LAMBDA work1 :
  With(Vec([i \in 1..k |-> IF userw THEN rw[(i - 1) * np + j] ELSE 0]), LAMBDA work3 :
  With(ess(work1, k, ns, isdeg, nsjump, userw, work3), LAMBDA mid :
  With(est(work1, k, ns, isdeg, 0, 1, Min(ns, k), userw, work3), LAMBDA fore :
  With(est(work1, k, ns, isdeg, k + 1, Max(1, k - ns + 1), k, userw, work3), LAMBDA aft :
    <<IF fore.ok THEN fore.ys ELSE mid[1]>> \o mid
      \o <<IF aft.ok THEN aft.ys ELSE mid[k]>>)))))

\* ss: the seasonal smoothing, season[0 .. n + 2 * np - 1], for n >= np
ss(y, n, np, ns, isdeg, nsjump, userw, rw) ==
  With(Vec([j \in 1..np |-> ssPhase(y, n, np, ns, isdeg, nsjump, userw, rw, j)]),
       LAMBDA work2 :
    Vec([p \in 1..(n + 2 * np) |-> work2[((p - 1) % np) + 1][((p - 1) \div np) + 1]]))

\* ---------------------------------------------------------------- onestp

\* One iteration of the loop of onestp: <<season, trend>> from trend
innerPass(y, n, np, ns, nt, nl, isdeg, itdeg, ildeg, nsjump, ntjump, nljump, userw, rw, trend) ==
  With(Vec([i \in 1..n |-> FSub(y[i], trend[i])]), LAMBDA work1 :
  With(ss(work1, n, np, ns, isdeg, nsjump, userw, rw), LAMBDA work2 :
  With(fts(work2, n + 2 * np, np), LAMBDA work3 :
  With(ess(work3, n, nl, ildeg, nljump, FALSE, rw), LAMBDA low :
  With(Vec([i \in 1..n |-> FSub(work2[np + i], low[i])]), LAMBDA season :
  With(Vec([i \in 1..n |-> FSub(y[i], season[i])]), LAMBDA deseason :
    <<season, ess(deseason, n, nt, itdeg, ntjump, userw, rw)>>))))))

RECURSIVE onestp(_, _, _, _, _, _, _, _, _, _, _, _, _, _, _, _, _)
\* onestp: ni inner iterations; <<season, trend, j>> after them, j the
\* number of times the body of the loop has run
onestp(y, n, np, ns, nt, nl, isdeg, itdeg, ildeg, nsjump, ntjump, nljump, ni, userw, rw, season, trend) ==
  IF ni = 0 THEN <<season, trend, 0>>
  ELSE With(onestp(y, n, np, ns, nt, nl, isdeg, itdeg, ildeg,
                   nsjump, ntjump, nljump, ni - 1, userw, rw, season, trend),
            LAMBDA prev :
         With(innerPass(y, n, np, ns, nt, nl, isdeg, itdeg, ildeg,
                        nsjump, ntjump, nljump, userw, rw, prev[2]), LAMBDA r :
           <<r[1], r[2], prev[3] + 1>>))

\* ------------------------------------------------------------- StlParams

\* std::nullopt of the optional fields
nullopt == -1
has_value(o) == o # nullopt
value_or(o, d) == IF has_value(o) THEN o ELSE d

\* ceil(a / b) for integers a >= 0, b > 0
CeilDiv(a, b) == (a + b - 1) \div b

\* A freshly constructed StlParams
StlParams0 ==
  [ns_ |-> nullopt, nt_ |-> nullopt, nl_ |-> nullopt,
   isdeg_ |-> 0, itdeg_ |-> 1, ildeg_ |-> nullopt,
   nsjump_ |-> nullopt, ntjump_ |-> nullopt, nljump_ |-> nullopt,
   ni_ |-> nullopt, no_ |-> nullopt, robust_ |-> FALSE]

Zeros(n) == [i \in 1..n |-> 0]

\* What the outer loop of a fit is doing:
\*   "onestp"  about to call onestp          "rwts"   about to call rwts
\*   "return"  the fit returned its result   "error"  it threw invalid_argument
\*   "hang"    inside a loop that never ends "crash"  ended by a memory fault
StlPc == {"onestp", "rwts", "return", "error", "hang", "crash"}

\* The parameters stl_fit derives and passes to stl
stlDerived(n, np, p) ==
  LET ns == value_or(p.ns_, np)
      newns0 == Max(ns, 3)
      newns == IF newns0 % 2 = 0 THEN newns0 + 1 ELSE newns0
      newnp == Max(np, 2)
      nt0 == Max(value_or(p.nt_, CeilDiv(3 * newnp * newns, 2 * newns - 3)), 3)
      nt == IF nt0 % 2 = 0 THEN nt0 + 1 ELSE nt0
      nl0 == value_or(p.nl_, newnp)
      nl == IF nl0 % 2 = 0 /\ ~has_value(p.nl_) THEN nl0 + 1 ELSE nl0
  IN [np |-> newnp, ns |-> newns, nt |-> nt, nl |-> nl,
      isdeg |-> p.isdeg_, itdeg |-> p.itdeg_, ildeg |-> value_or(p.ildeg_, p.itdeg_),
      ni |-> value_or(p.ni_, IF p.robust_ THEN 1 ELSE 2),
      no |-> value_or(p.no_, IF p.robust_ THEN 15 ELSE 0),
      nsjump |-> value_or(p.nsjump_, CeilDiv(newns, 10)),
      ntjump |-> value_or(p.ntjump_, CeilDiv(nt, 10)),
      nljump |-> value_or(p.nljump_, CeilDiv(nl, 10))]

\* stlInvalid with the parity checks made before the degree checks
stlInvalidOddFirst(d) ==
  IF d.ns < 3 THEN "seasonal_length must be at least 3"
  ELSE IF d.nt < 3 THEN "trend_length must be at least 3"
  ELSE IF d.nl < 3 THEN "low_pass_length must be at least 3"
  ELSE IF d.np < 2 THEN "period must be at least 2"
  ELSE IF d.ns % 2 # 1 THEN "seasonal_length must be odd"
  ELSE IF d.nt % 2 # 1 THEN "trend_length must be odd"
  ELSE IF d.nl % 2 # 1 THEN "low_pass_length must be odd"
  ELSE IF d.isdeg # 0 /\ d.isdeg # 1 THEN "seasonal_degree must be 0 or 1"
  ELSE IF d.itdeg # 0 /\ d.itdeg # 1 THEN "trend_degree must be 0 or 1"
  ELSE IF d.ildeg # 0 /\ d.ildeg # 1 THEN "low_pass_degree must be 0 or 1"
  ELSE ""

\* The message of the first check of stl that fails, "" when all pass
stlInvalid(d) ==
  IF d.ns < 3 THEN "seasonal_length must be at least 3"
  ELSE IF d.nt < 3 THEN "trend_length must be at least 3"
  ELSE IF d.nl < 3 THEN "low_pass_length must be at least 3"
  ELSE IF d.np < 2 THEN "period must be at least 2"
  ELSE IF d.isdeg # 0 /\ d.isdeg # 1 THEN "seasonal_degree must be 0 or 1"
  ELSE IF d.itdeg # 0 /\ d.itdeg # 1 THEN "trend_degree must be 0 or 1"
  ELSE IF d.ildeg # 0 /\ d.ildeg # 1 THEN "low_pass_degree must be 0 or 1"
  ELSE IF d.ns % 2 # 1 THEN "seasonal_length must be odd"
  ELSE IF d.nt % 2 # 1 THEN "trend_length must be odd"
  ELSE IF d.nl % 2 # 1 THEN "low_pass_length must be odd"
  ELSE ""

\* tooFewPeriods with one period asked for instead of two
tooFewPeriodsOne(n, np) == n < np

\* The first check of stl_fit
tooFewPeriods(n, np) == n < 2 * np

\* stl_fit up to the first pass of the loop of stl: the checks of stl_fit and
\* stl, the derived parameters, and the zero-filled result vectors.
\* period is the np the caller passed, d.np the one stl runs with.  passes
\* holds the last two calls of onestp, reweights the last call of rwts and nrw
\* the number of calls of rwts made so far (the code reads none of them).
stl_fit(y, np, p) ==
  LET n == Len(y)
      few == tooFewPeriods(n, np)
  IN With(stlDerived(n, np, p), LAMBDA d :
     With(IF few THEN "series has less than two periods" ELSE stlInvalid(d), LAMBDA what :
       [pc |-> IF what = "" THEN "onestp" ELSE "error", what |-> what,
        y |-> y, n |-> n, period |-> np, d |-> d,
        userw |-> FALSE, k |-> 0,
        weights |-> IF few THEN <<>> ELSE Zeros(n),
        seasonal |-> IF few THEN <<>> ELSE Zeros(n),
        trend |-> IF few THEN <<>> ELSE Zeros(n),
        remainder |-> <<>>, passes |-> <<>>, reweights |-> <<>>, nrw |-> 0]))

\* The values a fault leaves: o.g everywhere
Garbage(n, o) == [i \in 1..n |-> o.g]

\* The tail of stl and of stl_fit once the loop is left
stlFinish(c) ==
  [c EXCEPT !.pc = "return",
            !.weights = IF c.d.no <= 0 THEN Vec([i \in 1..c.n |-> Scale]) ELSE c.weights,
            !.remainder = Vec([i \in 1..c.n |->
                                FSub(FSub(c.y[i], c.seasonal[i]), c.trend[i])])]

\* stlLeave one pass early
stlLeaveEarly(k, no) == k >= no

\* stlLeave one pass late
stlLeaveLate(k, no) == k > no + 1

\* The loop of stl is left when k > no
stlLeave(k, no) == k > no

\* What a call of onestp adds to c.passes: what it was given and what it left
passEntry(c, season, trend, inner) ==
  [userw |-> c.userw, rw |-> IF c.userw THEN c.weights ELSE <<>>,
   season0 |-> c.seasonal, trend0 |-> c.trend,
   season |-> season, trend |-> trend, inner |-> inner]

\* k += 1 and "if (k > no) break" after a call of onestp that ran the body of
\* its loop inner times and left season and trend
stlAfterPass(c, season, trend, inner) ==
  With([c EXCEPT !.seasonal = season, !.trend = trend, !.k = c.k + 1,
                 !.passes = (IF c.passes = <<>> THEN <<>> ELSE <<c.passes[Len(c.passes)]>>)
                              \o <<passEntry(c, season, trend, inner)>>],
       LAMBDA g :
    IF stlLeave(g.k, g.d.no) THEN stlFinish(g) ELSE [g EXCEPT !.pc = "rwts"])

\* One pass of the while loop of stl up to "if (k > no) break", or the rwts
\* step that follows it.  o decides what undefined behaviour does.
StlStep(c, o) ==
  LET d == c.d IN
  IF c.pc = "onestp" THEN
    IF d.ni > 0 /\ c.n < d.np
      THEN \* ss: (n - j) / np wraps for j > n, and the loops run off the buffers
           IF o.crash THEN [c EXCEPT !.pc = "crash"]
           ELSE stlAfterPass(c, Garbage(c.n, o), Garbage(c.n, o), d.ni)
    ELSE IF d.ni > 0 /\ (d.nsjump = 0 \/ d.ntjump = 0 \/ d.nljump = 0)
      THEN \* ess: i += newnj with newnj = 0
           [c EXCEPT !.pc = "hang"]
    ELSE
      With(onestp(c.y, c.n, d.np, d.ns, d.nt, d.nl, d.isdeg, d.itdeg, d.ildeg,
                  d.nsjump, d.ntjump, d.nljump, d.ni, c.userw, c.weights,
                  c.seasonal, c.trend), LAMBDA r :
        stlAfterPass(c, r[1], r[2], r[3]))
  ELSE IF c.pc = "rwts" THEN
    IF c.n = 0
      THEN \* rwts: mid1 = (n - 1) / 2 wraps, rw[mid1] is read off the buffer
           IF o.crash THEN [c EXCEPT !.pc = "crash"]
           ELSE [c EXCEPT !.pc = "onestp", !.userw = TRUE,
                          !.reweights = <<[fit |-> <<>>, rw |-> c.weights]>>,
                          !.nrw = c.nrw + 1]
      ELSE With(Vec([i \in 1..c.n |-> FAdd(c.trend[i], c.seasonal[i])]), LAMBDA work1 :
           With(rwts(c.y, c.n, work1, o), LAMBDA rw :
             [c EXCEPT !.pc = "onestp", !.userw = TRUE, !.weights = rw,
                       !.reweights = <<[fit |-> work1, rw |-> rw]>>,
                       !.nrw = c.nrw + 1]))
  ELSE c

StlDone(c) == c.pc \in {"return", "error", "hang", "crash"}

RECURSIVE StlRun(_, _)
\* The whole fit: the steps up to the end of the call
StlRun(c, o) ==
  With(c, LAMBDA at :
    IF StlDone(at) THEN at ELSE StlRun(StlStep(at, o), o))

\* ------------------------------------------------------------------ mstl

\* An optional vector or float: std::nullopt, or a value
None == [has_value |-> FALSE, value |-> <<>>]
Some(v) == [has_value |-> TRUE, value |-> v]

\* A freshly constructed MstlParams
MstlParams0 ==
  [iterate_ |-> 2, lambda_ |-> None, swin |-> None, stl_params_ |-> StlParams0]

\* std::log and std::sqrt of the whole numbers 1..10, in units of 1/Scale
LogTable == <<0, 693, 1099, 1386, 1609, 1792, 1946, 2079, 2197, 2303>>
SqrtTable == <<1000, 1414, 1732, 2000, 2236, 2449, 2646, 2828, 3000, 3162>>

\* std::log(value), for a whole value up to 10
Log(value) ==
  IF value < 0 THEN NaN
  ELSE IF value = 0 THEN NInf
  ELSE LogTable[value \div Scale]

\* std::pow(value, lambda) for lambda 1/2 or 1, for a whole value up to 10
Pow(value, lambda) ==
  IF 2 * lambda = Scale
    THEN (IF value < 0 THEN NaN
          ELSE IF value = 0 THEN 0
          ELSE SqrtTable[value \div Scale])
    ELSE value

\* lambda < FLOAT_EPSILON (0.0001f)
belowEpsilon(lambda) == lambda * 10000 < Scale

\* box_cox: log(y), or (y^lambda - 1) / lambda
box_cox(y, lambda) ==
  Vec([i \in 1..Len(y) |->
        IF belowEpsilon(lambda) THEN Log(y[i])
        ELSE LET t == FSub(Pow(y[i], lambda), Scale)
             IN IF IsFinite(t) THEN RDiv(t * Scale, lambda) ELSE t])

RECURSIVE insertIndex(_, _, _, _)
\* ix with index a put before the first index whose period is larger (rev:
\* not smaller) than the period of a
insertIndex(ix, a, seas_ids, rev) ==
  With(ix, LAMBDA s :
    IF s = <<>> THEN <<a>>
    ELSE IF seas_ids[a] < seas_ids[Head(s)] \/ (rev /\ seas_ids[a] = seas_ids[Head(s)])
      THEN <<a>> \o s
      ELSE <<Head(s)>> \o insertIndex(Tail(s), a, seas_ids, rev))

\* sortIndices without the sort: the indices as std::iota leaves them
unsortedIndices(seas_ids, m, rev) == [i \in 1..m |-> i]

RECURSIVE sortIndices(_, _, _)
\* The indices 1..m of seas_ids ordered by period.  std::sort leaves the order
\* of equal periods unspecified: rev tells which of the two ways they end up.
sortIndices(seas_ids, m, rev) ==
  IF m = 0 THEN <<>>
  ELSE insertIndex(sortIndices(seas_ids, m - 1, rev), m, seas_ids, rev)

\* The message of the first check of MstlParams::fit that fails, "" when all pass
RECURSIVE periodsInvalid(_, _, _)
periodsInvalid(n, periods, i) ==
  IF i > Len(periods) THEN ""
  ELSE IF periods[i] < 2 THEN "each period must be at least 2"
  ELSE IF n < periods[i] * 2 THEN "series is shorter than twice the period"
  ELSE periodsInvalid(n, periods, i + 1)

\* mstlInvalid with the empty period list found by the checks of the call
mstlInvalidEmpty(n, periods, mp) ==
  LET e == periodsInvalid(n, periods, 1)
  IN IF periods = <<>> THEN "periods must not be empty"
     ELSE IF e # "" THEN e
     ELSE IF mp.lambda_.has_value /\ (mp.lambda_.value > Scale \/ mp.lambda_.value < 0)
       THEN "lambda must be between 0 and 1"
     ELSE IF mp.swin.has_value /\ Len(mp.swin.value) # Len(periods)
       THEN "seasonal_lengths must have the same length as periods"
     ELSE ""

mstlInvalid(n, periods, mp) ==
  LET e == periodsInvalid(n, periods, 1)
  IN IF e # "" THEN e
     ELSE IF mp.lambda_.has_value /\ (mp.lambda_.value > Scale \/ mp.lambda_.value < 0)
       THEN "lambda must be between 0 and 1"
     ELSE IF mp.swin.has_value /\ Len(mp.swin.value) # Len(periods)
       THEN "seasonal_lengths must have the same length as periods"
     ELSE ""

\* MstlParams::fit up to the call of _::mstl.
\*   "mstl"  about to run the head of _::mstl   "fit"  about to run the body of
\*   the loops for round j and position i; work is the series the loops start
\*   from and fits lists the STL fits done so far (neither is read by the code).
mstl_fit(series, periods, mp) ==
  LET what == mstlInvalid(Len(series), periods, mp)
  IN [pc |-> IF what = "" THEN "mstl" ELSE "error", what |-> what,
      x |-> series, seas_ids |-> periods, mp |-> mp,
      indices |-> <<>>, iter |-> 0, j |-> 0, i |-> 0,
      deseas |-> <<>>, work |-> <<>>, seasonality |-> <<>>, trend |-> <<>>,
      remainder |-> <<>>, fits |-> <<>>]

\* mstlParams with the seasonal length of the nested parameters put before
\* the caller's seasonal_lengths
mstlParamsNested(mp, idx, i) ==
  IF has_value(mp.stl_params_.ns_) THEN mp.stl_params_
  ELSE IF mp.swin.has_value THEN [mp.stl_params_ EXCEPT !.ns_ = mp.swin.value[idx]]
  ELSE [mp.stl_params_ EXCEPT !.ns_ = 7 + 4 * (i + 1)]

\* The StlParams of the fit for position i (0-based) of the sorted periods
mstlParams(mp, idx, i) ==
  IF mp.swin.has_value THEN [mp.stl_params_ EXCEPT !.ns_ = mp.swin.value[idx]]
  ELSE IF has_value(mp.stl_params_.ns_) THEN mp.stl_params_
  ELSE [mp.stl_params_ EXCEPT !.ns_ = 7 + 4 * (i + 1)]

\* remainder = deseas - trend, and the return.  With no fit done trend is
\* empty and trend.begin() is read past its end.
mstlFinish(m, o) ==
  IF Len(m.trend) < Len(m.deseas)
    THEN IF o.crash THEN [m EXCEPT !.pc = "crash"]
         ELSE [m EXCEPT !.pc = "return",
                        !.remainder = Vec([t \in 1..Len(m.deseas) |-> FSub(m.deseas[t], o.g)])]
    ELSE [m EXCEPT !.pc = "return",
                   !.remainder = Vec([t \in 1..Len(m.deseas) |-> FSub(m.deseas[t], m.trend[t])])]

\* mstlIter with the count the caller set used whatever the periods
mstlIterAll(iterate, m) == iterate

\* The number of rounds: iterate, or 1 for a single period
mstlIter(iterate, m) == IF m = 1 THEN 1 ELSE iterate

\* The entry the fit of the series y for the period at idx adds to m.fits:
\* what the fit was given, and the seasonal and trend it returned
fitEntry(m, idx, p, y, seasonal, trend) ==
  [period |-> m.seas_ids[idx], ns_ |-> p.ns_, params |-> p, y |-> y, idx |-> idx,
   seasonal |-> seasonal, trend |-> trend]

\* The rest of the loop body once the STL fit of the series back (deseas with
\* the seasonal of idx added back) has ended as fit
mstlAfterFit(m, o, idx, p, back, fit) ==
  LET last == m.i + 1 = Len(m.indices) IN
  IF fit.pc # "return"
    THEN [m EXCEPT !.pc = fit.pc, !.what = fit.what, !.deseas = back,
                   !.fits = Append(m.fits, fitEntry(m, idx, p, back, <<>>, <<>>))]
    ELSE With([m EXCEPT !.seasonality[idx] = fit.seasonal,
                        !.trend = fit.trend,
                        !.deseas = Vec([t \in 1..Len(back) |->
                                         FSub(back[t], fit.seasonal[t])]),
                        !.fits = Append(m.fits, fitEntry(m, idx, p, back, fit.seasonal, fit.trend)),
                        !.i = IF last THEN 0 ELSE m.i + 1,
                        !.j = IF last THEN m.j + 1 ELSE m.j], LAMBDA g :
           IF g.j >= g.iter THEN mstlFinish(g, o) ELSE g)

\* The head of _::mstl, or one pass of the body of its loops
MstlStep(m, o) ==
  IF m.pc = "mstl" THEN
    LET k == Len(m.seas_ids)
        lam == m.mp.lambda_
    IN With(IF lam.has_value THEN box_cox(m.x, lam.value) ELSE m.x, LAMBDA deseas :
       With([m EXCEPT !.indices = sortIndices(m.seas_ids, k, o.rev),
                      !.iter = mstlIter(m.mp.iterate_, k),
                      !.seasonality = [t \in 1..k |-> <<>>],
                      !.deseas = deseas, !.work = deseas], LAMBDA g :
         IF k = 0 THEN [g EXCEPT !.pc = "error", !.what = "periods must not be empty"]
         ELSE IF g.iter = 0 THEN mstlFinish(g, o)
         ELSE [g EXCEPT !.pc = "fit"]))
  ELSE IF m.pc = "fit" THEN
    LET idx == m.indices[m.i + 1]
        p == mstlParams(m.mp, idx, m.i)
    IN With(IF m.j > 0
              THEN Vec([t \in 1..Len(m.deseas) |->
                         FAdd(m.seasonality[idx][t], m.deseas[t])])
              ELSE m.deseas, LAMBDA back :
       With(StlRun(stl_fit(back, m.seas_ids[idx], p), o), LAMBDA fit :
         mstlAfterFit(m, o, idx, p, back, fit)))
  ELSE m

MstlDone(m) == m.pc \in {"return", "error", "hang", "crash"}

RECURSIVE MstlRun(_, _)
\* The whole fit: the steps up to the end of the call
MstlRun(m, o) ==
  With(m, LAMBDA at :
    IF MstlDone(at) THEN at ELSE MstlRun(MstlStep(at, o), o))

\* ------------------------------------------------------- the state machine

\* Bounds of the model
MaxN == 6          \* series of length 0 .. MaxN
MaxPeriod == 3     \* periods 0 .. MaxPeriod
MaxSets == 2       \* setter calls on one parameters object

VARIABLES
  params,    \* the StlParams object the caller builds
  nsets,     \* the number of setter calls made on the object being built
  call,      \* the StlParams::fit call in progress
  mparams,   \* the MstlParams object the caller builds
  mcall      \* the MstlParams::fit call in progress

vars == <<params, nsets, call, mparams, mcall>>

Idle == [pc |-> "idle"]

\* generate_series() of the tests, and its prefix of length n
Gen == <<5, 9, 2, 9, 0, 6, 3, 8, 5, 8>>
Series(n) == [i \in 1..n |-> Gen[i] * Scale]

\* What undefined behaviour may do: end the process or go on with the value g;
\* which values std::sort leaves in the middle; how it orders equal periods
Oracles(n) ==
  {[crash |-> cr, g |-> g, p |-> pq[1], q |-> pq[2], rev |-> rv] :
     cr \in BOOLEAN, g \in {0, NaN}, rv \in BOOLEAN,
     pq \in {pq \in (1..Max(n, 1)) \X (1..Max(n, 1)) : n < 2 \/ pq[1] # pq[2]}}
Oracle0 == [crash |-> TRUE, g |-> 0, p |-> 1, q |-> 1, rev |-> FALSE]

HasNaN(f) == \E i \in 1..Len(f) : f[i] = NaN

\* The step of c reads something the language leaves undefined
stlUndefined(c) ==
  \/ c.pc = "onestp" /\ c.d.ni > 0 /\ c.n < c.d.np
  \/ c.pc = "rwts" /\ (c.n = 0 \/ HasNaN(c.y) \/ HasNaN(c.seasonal) \/ HasNaN(c.trend))

Init ==
  /\ params = StlParams0
  /\ nsets = 0
  /\ call = Idle
  /\ mparams = MstlParams0
  /\ mcall = Idle

Building == call.pc = "idle" /\ mcall.pc = "idle" /\ nsets < MaxSets

Set(p) == /\ Building
          /\ params' = p
          /\ nsets' = nsets + 1
          /\ UNCHANGED <<call, mparams, mcall>>

seasonal_length == \E ns \in {4, 5} : Set([params EXCEPT !.ns_ = ns])
trend_length == \E nt \in {4} : Set([params EXCEPT !.nt_ = nt])
low_pass_length == \E nl \in {1, 4, 5} : Set([params EXCEPT !.nl_ = nl])
seasonal_degree == \E deg \in {1, 2} : Set([params EXCEPT !.isdeg_ = deg])
trend_degree == \E deg \in {0, 2} : Set([params EXCEPT !.itdeg_ = deg])
low_pass_degree == \E deg \in {0, 2} : Set([params EXCEPT !.ildeg_ = deg])
seasonal_jump == \E jump \in {0, 2} : Set([params EXCEPT !.nsjump_ = jump])
trend_jump == \E jump \in {0, 2} : Set([params EXCEPT !.ntjump_ = jump])
low_pass_jump == \E jump \in {0, 2} : Set([params EXCEPT !.nljump_ = jump])
inner_loops == \E ni \in {0, 1} : Set([params EXCEPT !.ni_ = ni])
outer_loops == \E no \in {0, 1} : Set([params EXCEPT !.no_ = no])
robust == \E b \in {TRUE} : Set([params EXCEPT !.robust_ = b])

\* StlParams::fit(y, np): the call and its checks
Fit ==
  /\ call.pc = "idle" /\ mcall.pc = "idle"
  /\ \E n \in 0..MaxN, np \in 0..MaxPeriod : call' = stl_fit(Series(n), np, params)
  /\ UNCHANGED <<params, nsets, mparams, mcall>>

\* One call of onestp by the loop of stl, and what follows a break
Onestp ==
  /\ call.pc = "onestp"
  /\ \E o \in (IF stlUndefined(call) THEN Oracles(call.n) ELSE {Oracle0}) :
       call' = StlStep(call, o)
  /\ UNCHANGED <<params, nsets, mparams, mcall>>

\* One call of rwts by the loop of stl
Rwts ==
  /\ call.pc = "rwts"
  /\ \E o \in (IF stlUndefined(call) THEN Oracles(call.n) ELSE {Oracle0}) :
       call' = StlStep(call, o)
  /\ UNCHANGED <<params, nsets, mparams, mcall>>

Next ==
  \/ seasonal_length \/ trend_length \/ low_pass_length
  \/ seasonal_degree \/ trend_degree \/ low_pass_degree
  \/ seasonal_jump \/ trend_jump \/ low_pass_jump
  \/ inner_loops \/ outer_loops \/ robust
  \/ Fit \/ Onestp \/ Rwts

Spec == Init /\ [][Next]_vars

\* ------------------------------------------------- the MSTL state machine

MSet(mp) == /\ Building
            /\ mparams' = mp
            /\ nsets' = nsets + 1
            /\ UNCHANGED <<params, call, mcall>>

\* The StlParams objects a caller hands to stl_params
NestedParams ==
  {StlParams0, [StlParams0 EXCEPT !.ns_ = 5], [StlParams0 EXCEPT !.no_ = 1],
   [StlParams0 EXCEPT !.isdeg_ = 2]}

iterations == \E iter \in {0, 1} : MSet([mparams EXCEPT !.iterate_ = iter])
lambda == \E value \in {0, Scale \div 2, 2 * Scale} :
            MSet([mparams EXCEPT !.lambda_ = Some(value)])
seasonal_lengths == \E lengths \in {<<5>>, <<5, 7>>} :
                      MSet([mparams EXCEPT !.swin = Some(lengths)])
stl_params == \E p \in NestedParams : MSet([mparams EXCEPT !.stl_params_ = p])

\* The period lists a caller passes: up to two periods
PeriodLists ==
  {<<>>} \cup {<<a>> : a \in 1..MaxPeriod}
         \cup {<<a, b>> : a \in 1..MaxPeriod, b \in 1..MaxPeriod}

\* Where a call meets behaviour the language leaves open: equal periods under
\* std::sort, an empty trend read at the end, a NaN under the std::sort of rwts
equalPeriods(periods) ==
  \E a \in 1..Len(periods), b \in 1..Len(periods) : a # b /\ periods[a] = periods[b]
emptyTrend(periods, mp) == Len(periods) > 1 /\ mp.iterate_ = 0
sortsNaN(series, mp) ==
  /\ mp.lambda_.has_value
  /\ \E i \in 1..Len(series) : series[i] <= 0
  /\ value_or(mp.stl_params_.no_, IF mp.stl_params_.robust_ THEN 15 ELSE 0) > 0

\* What a build may do with the call
MstlOracles(series, periods, mp) ==
  {o \in Oracles(2) :
     /\ equalPeriods(periods) \/ ~o.rev
     /\ emptyTrend(periods, mp) \/ (o.crash /\ o.g = 0)
     /\ sortsNaN(series, mp) \/ (o.p = 1 /\ o.q = 2)}

\* MstlParams::fit(series, periods): the call and its checks.  o is what this
\* build does wherever the call meets behaviour the language leaves open.
MFit ==
  /\ call.pc = "idle" /\ mcall.pc = "idle"
  /\ \E n \in 0..MaxN, periods \in PeriodLists :
       \E o \in MstlOracles(Series(n), periods, mparams) :
         mcall' = [o |-> o] @@ mstl_fit(Series(n), periods, mparams)
  /\ UNCHANGED <<params, nsets, call, mparams>>

\* The head of _::mstl: sort, Box-Cox, the check of the period list
Mstl ==
  /\ mcall.pc = "mstl"
  /\ mcall' = MstlStep(mcall, mcall.o)
  /\ UNCHANGED <<params, nsets, call, mparams>>

\* One STL fit of the loops of _::mstl, and what follows the last one
MstlFit ==
  /\ mcall.pc = "fit"
  /\ mcall' = MstlStep(mcall, mcall.o)
  /\ UNCHANGED <<params, nsets, call, mparams>>

MNext ==
  \/ iterations \/ lambda \/ seasonal_lengths \/ stl_params
  \/ MFit \/ Mstl \/ MstlFit

MSpec == Init /\ [][MNext]_vars

\* ------------------------------------------------------------ properties

\* A call of StlParams::fit has been made / has returned a result
Called == call.pc # "idle"
Returned == call.pc = "return"

\* C1: every StlParams::fit call that returns a result on a series of length
\* n returns seasonal, trend, remainder and weights of length n with
\* remainder[i] = y[i] - seasonal[i] - trend[i] and
\* seasonal[i] + trend[i] + remainder[i] = y[i] at every index, whatever the
\* loop counts and with or without robust weighting.
C1_Reconstruction ==
  Returned =>
    /\ Len(call.seasonal) = call.n /\ Len(call.trend) = call.n
    /\ Len(call.remainder) = call.n /\ Len(call.weights) = call.n
    /\ \A i \in 1..call.n :
         /\ FEq(call.remainder[i],
                FSub(FSub(call.y[i], call.seasonal[i]), call.trend[i]))
         /\ FEq(FAdd(FAdd(call.seasonal[i], call.trend[i]), call.remainder[i]),
                call.y[i])

\* The identity of C1 for the calls whose period is at least 2: these never
\* reach the wrapped subtraction of ss.
C1_FromPeriodTwo == (Returned /\ call.period >= 2) => C1_Reconstruction

C1_FromPeriodTwoWitness ==
  /\ Returned /\ call.period = 3 /\ call.n = 6 /\ call.d.no = 1
  /\ call.remainder[1] # 0

\* C5: when the effective outer loop count is 0 (outer_loops unset and robust
\* false, or outer_loops(0) set, robust or not) every returned weight is 1 and
\* no robustness weight is computed or used by a smoothing pass of the fit.
C5_UniformWeights ==
  (/\ Called /\ call.pc # "error"
   /\ \/ params.no_ = 0
      \/ ~has_value(params.no_) /\ ~params.robust_)
  => /\ call.d.no = 0
     /\ call.pc # "rwts"
     /\ ~call.userw
     /\ Returned => /\ Len(call.weights) = call.n
                    /\ \A i \in 1..call.n : call.weights[i] = Scale

C5_UniformWeightsWitness ==
  /\ Returned /\ params.robust_ /\ params.no_ = 0 /\ call.n = 6 /\ call.period = 3
  /\ call.weights = [i \in 1..6 |-> Scale]

\* C6: StlParams::fit with n < 2 * np fails with the message "series has less
\* than two periods" and returns no result; the check comes before every
\* other one, so this is the error even when a degree or a window is invalid.
C6_TooFewPeriods ==
  (Called /\ call.n < 2 * call.period)
  => /\ call.pc = "error"
     /\ call.what = "series has less than two periods"
     /\ call.remainder = <<>> /\ call.k = 0

C6_TooFewPeriodsWitness ==
  /\ call.pc = "error" /\ call.n = 3 /\ call.period = 2
  /\ params.isdeg_ = 2 /\ params.nl_ = 4
  /\ call.what = "series has less than two periods"

\* C7: an explicitly set even seasonal, trend or low-pass window length makes
\* StlParams::fit fail with an error instead of returning a result.
C7_ExplicitEvenRejected ==
  (/\ Called
   /\ \/ has_value(params.ns_) /\ params.ns_ % 2 = 0
      \/ has_value(params.nt_) /\ params.nt_ % 2 = 0
      \/ has_value(params.nl_) /\ params.nl_ % 2 = 0)
  => call.pc = "error"

\* C8: StlParams::fit with a period smaller than 2 fails with an error; the
\* engine never runs with a period other than the one passed, nor with a
\* series shorter than twice the period it uses.
C8_SmallPeriodRejected ==
  /\ (Called /\ call.period < 2) => call.pc = "error"
  /\ (Called /\ call.pc # "error")
       => (call.d.np = call.period /\ call.n >= 2 * call.d.np)

\* Some degree of the call is not 0 or 1
BadDegree(d) == d.isdeg \notin {0, 1} \/ d.itdeg \notin {0, 1} \/ d.ildeg \notin {0, 1}

\* The error that names the first bad degree, in the order seasonal, trend, low-pass
DegreeError(d) ==
  IF d.isdeg \notin {0, 1} THEN "seasonal_degree must be 0 or 1"
  ELSE IF d.itdeg \notin {0, 1} THEN "trend_degree must be 0 or 1"
  ELSE "low_pass_degree must be 0 or 1"

\* C9: with n >= 2 * period and a seasonal, trend or effective low-pass
\* degree that is not 0 or 1, StlParams::fit fails with the error naming that
\* degree before any smoothing pass, and returns no result.
C9_DegreeNamed ==
  (Called /\ call.n >= 2 * call.period /\ BadDegree(call.d))
  => /\ call.pc = "error"
     /\ call.what \in {"seasonal_degree must be 0 or 1", "trend_degree must be 0 or 1",
                       "low_pass_degree must be 0 or 1"}
     /\ call.d.isdeg \notin {0, 1} => call.what = "seasonal_degree must be 0 or 1"
     /\ call.k = 0 /\ call.remainder = <<>>

\* C9 as the code has it: the call fails before any smoothing pass and returns
\* no result; the error is "low_pass_length must be at least 3" when a
\* low-pass length below 3 was set, and otherwise names the first bad degree
\* in the order seasonal, trend, low-pass.
C9_DegreeRejected ==
  (Called /\ call.n >= 2 * call.period /\ BadDegree(call.d))
  => /\ call.pc = "error"
     /\ call.what = IF has_value(params.nl_) /\ params.nl_ < 3
                      THEN "low_pass_length must be at least 3"
                      ELSE DegreeError(call.d)
     /\ call.k = 0 /\ call.remainder = <<>>
     /\ call.seasonal = Zeros(call.n) /\ call.trend = Zeros(call.n)

C9_DegreeRejectedWitness ==
  /\ call.pc = "error" /\ call.n = 6 /\ call.period = 3
  /\ params.nl_ = 1 /\ params.isdeg_ = 2
  /\ call.what = "low_pass_length must be at least 3"

\* A call of MstlParams::fit has been made / has returned a result
MCalled == mcall.pc # "idle"
MReturned == mcall.pc = "return"

RECURSIVE seasonalSum(_, _, _)
\* The sum at index t of the seasonal sequences stored for the first k periods
seasonalSum(m, t, k) ==
  IF k = 0 THEN 0
  ELSE FAdd(seasonalSum(m, t, k - 1),
            IF m.seasonality[k] = <<>> THEN 0 ELSE m.seasonality[k][t])

\* C2: for every MstlParams::fit call that returns a result with an iteration
\* count >= 1, at every index the seasonal sequences of all periods plus
\* trend plus remainder add up to the working input (the series, or its
\* Box-Cox transform when lambda is set); and after every STL fit the running
\* deseasonalized series is the working input minus the stored seasonals.
C2_MstlReconstruction ==
  (MCalled /\ mcall.iter >= 1 /\ mcall.fits # <<>>
     /\ mcall.pc \in {"fit", "return"})
  => LET k == Len(mcall.seas_ids) IN
     /\ \A t \in 1..Len(mcall.work) :
          FEq(mcall.deseas[t], FSub(mcall.work[t], seasonalSum(mcall, t, k)))
     /\ MReturned =>
          \A t \in 1..Len(mcall.work) :
            FEq(FAdd(FAdd(seasonalSum(mcall, t, k), mcall.trend[t]), mcall.remainder[t]),
                mcall.work[t])

\* The identity of C2 for the calls whose working input is finite
C2_FiniteInput ==
  (/\ MCalled
   /\ \A t \in 1..Len(mcall.x) : ~mcall.mp.lambda_.has_value \/ mcall.x[t] > 0)
  => C2_MstlReconstruction

C2_FiniteInputWitness ==
  /\ MReturned /\ mcall.seas_ids = <<3, 2>> /\ Len(mcall.fits) = 4
  /\ mcall.remainder[1] # 0

\* A list of two the other way round
Swap(s) == <<s[2], s[1]>>

\* What the call of m would be with its two periods (and seasonal_lengths)
\* listed the other way round
swapped(m) ==
  MstlRun(mstl_fit(m.x, Swap(m.seas_ids),
                   [m.mp EXCEPT !.swin = IF @.has_value /\ Len(@.value) = 2
                                           THEN Some(Swap(@.value)) ELSE @]),
          m.o)

\* What the fits of a call were given: period, seasonal window, input series
fitInputs(m) ==
  [f \in 1..Len(m.fits) |->
     <<m.fits[f].period, m.fits[f].ns_, m.fits[f].y>>]

\* The seasonal of the last fit of m done for period p
lastSeasonal(m, p) ==
  LET at == {f \in 1..Len(m.fits) : m.fits[f].period = p}
  IN IF at = {} THEN <<>>
     ELSE m.fits[CHOOSE f \in at : \A g \in at : g <= f].seasonal

\* C3: the results of MSTL do not depend on the order of the (pairwise
\* distinct) periods: listed the other way round, with seasonal_lengths
\* permuted alike, the same STL fits are done (period, window, input series),
\* trend and remainder are the same, and seasonal[i] is the component of the
\* i-th period as listed.
C3_OrderIndependent ==
  (MReturned /\ Len(mcall.seas_ids) = 2 /\ mcall.seas_ids[1] # mcall.seas_ids[2])
  => LET other == swapped(mcall) IN
     /\ other.pc = "return"
     /\ fitInputs(other) = fitInputs(mcall)
     /\ other.trend = mcall.trend
     /\ other.remainder = mcall.remainder
     /\ other.seasonality = Swap(mcall.seasonality)
     /\ \A i \in 1..2 : mcall.seasonality[i] = lastSeasonal(mcall, mcall.seas_ids[i])

C3_OrderIndependentWitness ==
  /\ MReturned /\ mcall.seas_ids = <<3, 2>> /\ Len(mcall.fits) = 4
  /\ mcall.mp.swin = Some(<<5, 7>>)
  /\ mcall.fits[1].period = 2 /\ mcall.fits[1].ns_ = 7
  /\ mcall.seasonality[1] # mcall.seasonality[2]

\* C4: every MstlParams::fit call that passes validation, for any iteration
\* count (0 included) and any non-empty period list, returns one seasonal
\* sequence of length n per period plus a trend and a remainder of length n,
\* and reads no trend or seasonal sequence before an STL fit has filled it.
C4_OneSeasonalPerPeriod ==
  (MstlDone(mcall) /\ mcall.pc # "error")
  => /\ MReturned
     /\ Len(mcall.seasonality) = Len(mcall.seas_ids)
     /\ \A i \in 1..Len(mcall.seasonality) : Len(mcall.seasonality[i]) = Len(mcall.x)
     /\ Len(mcall.trend) = Len(mcall.x)
     /\ Len(mcall.remainder) = Len(mcall.x)

\* C4 for the calls that run at least one round
C4_FromOneRound == (MCalled /\ mcall.iter >= 1) => C4_OneSeasonalPerPeriod

\* C10: MstlParams::fit with a period p >= 2 in the list and a series shorter
\* than 2 * p fails with the message "series has less than two periods".
C10_SameMessage ==
  (/\ MCalled
   /\ \E i \in 1..Len(mcall.seas_ids) :
        mcall.seas_ids[i] >= 2 /\ Len(mcall.x) < 2 * mcall.seas_ids[i])
  => /\ mcall.pc = "error"
     /\ mcall.what = "series has less than two periods"

\* C10 but for the wording: such a call fails
C10_Fails ==
  (/\ MCalled
   /\ \E i \in 1..Len(mcall.seas_ids) :
        mcall.seas_ids[i] >= 2 /\ Len(mcall.x) < 2 * mcall.seas_ids[i])
  => /\ mcall.pc = "error"
     /\ mcall.what \in {"series is shorter than twice the period",
                        "each period must be at least 2"}

\* The call has a Box-Cox lambda in [0, 1] and a series with a value <= 0
nonPositiveInput(m) ==
  /\ m.mp.lambda_.has_value
  /\ m.mp.lambda_.value >= 0 /\ m.mp.lambda_.value <= Scale
  /\ \E t \in 1..Len(m.x) : m.x[t] <= 0

\* C11: when a Box-Cox lambda in [0, 1] is set and the series holds a value
\* <= 0, MstlParams::fit fails with an error instead of returning a
\* decomposition.
C11_NonPositiveRejected ==
  (MCalled /\ nonPositiveInput(mcall) /\ MstlDone(mcall)) => mcall.pc = "error"

\* What the code does with such a call when nothing else is wrong with it:
\* the transform is applied to the value <= 0 and the fits go on from it
C11_TransformApplied ==
  (/\ MCalled /\ nonPositiveInput(mcall)
   /\ mcall.pc \in {"fit", "return"})
  => \E t \in 1..Len(mcall.x) :
       /\ mcall.x[t] <= 0
       /\ mcall.work[t] = box_cox(mcall.x, mcall.mp.lambda_.value)[t]

\* The caller sets jumps and loop counts and calls StlParams::fit
FairNext ==
  \/ seasonal_jump \/ trend_jump \/ low_pass_jump
  \/ inner_loops \/ outer_loops
  \/ Fit \/ Onestp \/ Rwts

\* The call in progress runs on: the thread inside StlParams::fit takes the
\* next pass of the loop of stl whenever there is one
FairSpec == Init /\ [][FairNext]_vars /\ WF_vars(Onestp) /\ WF_vars(Rwts)

\* C12: every call of StlParams::fit terminates for every configuration the
\* setters accept and the checks do not reject, the jumps 0 included: it comes
\* to an end, by a result or an error (or, short of what the claim asks, by
\* the end of the process).
C12_Terminates == Called ~> (call.pc \in {"return", "error", "crash"})

\* The calls that never return: a jump of 0 with inner iterations to run,
\* where the loops of ess add newnj = 0 to i and stay at i = 1
C12_EndlessLoop ==
  (Called /\ call.pc = "hang")
  => /\ call.d.ni > 0
     /\ call.d.nsjump = 0 \/ call.d.ntjump = 0 \/ call.d.nljump = 0

\* With jumps of at least 1 and a period of at least 2 the call ends
C12_FromJumpOne ==
  (/\ Called /\ call.period >= 2
   /\ call.d.nsjump >= 1 /\ call.d.ntjump >= 1 /\ call.d.nljump >= 1)
  ~> (call.pc \in {"return", "error"})

\* The messages of the checks MstlParams::fit makes itself
FitErrors ==
  {"each period must be at least 2", "series is shorter than twice the period",
   "lambda must be between 0 and 1",
   "seasonal_lengths must have the same length as periods"}

\* The series _::mstl starts from: the Box-Cox transform when lambda is set
transformed(m) ==
  IF m.mp.lambda_.has_value THEN box_cox(m.x, m.mp.lambda_.value) ELSE m.x

\* C13: in MstlParams::fit every error (period < 2, series shorter than twice
\* a period, lambda outside [0, 1], seasonal_lengths of another length, empty
\* period list, an error of the nested STL parameters) is raised before any
\* computation on the series: before the Box-Cox transform is applied and
\* before any STL fit is entered.
C13_ErrorsBeforeTransform ==
  (MCalled /\ mcall.pc = "error")
  => /\ ~(mcall.mp.lambda_.has_value /\ mcall.work # <<>>)
     /\ mcall.fits = <<>>

\* C13 as the code has it: every error is raised before any STL smoothing
\* pass and nothing is returned.  The checks of MstlParams::fit come before
\* the Box-Cox transform; the empty period list is found after the transform;
\* an error of the nested STL parameters is raised by the checks of the first
\* STL fit, entered with the transformed series.
C13_ErrorsBeforeSmoothing ==
  (MCalled /\ mcall.pc = "error")
  => /\ mcall.trend = <<>> /\ mcall.remainder = <<>>
     /\ \A i \in 1..Len(mcall.seasonality) : mcall.seasonality[i] = <<>>
     /\ \A f \in 1..Len(mcall.fits) : mcall.fits[f].seasonal = <<>>
     /\ mcall.j = 0 /\ mcall.i = 0
     /\ IF mcall.what \in FitErrors
          THEN mcall.work = <<>> /\ mcall.deseas = <<>> /\ mcall.fits = <<>>
          ELSE /\ mcall.work = transformed(mcall)
               /\ IF mcall.seas_ids = <<>>
                    THEN mcall.what = "periods must not be empty" /\ mcall.fits = <<>>
                    ELSE /\ Len(mcall.fits) = 1
                         /\ mcall.fits[1].y = mcall.work
                         /\ mcall.what # "periods must not be empty"

C13_ErrorsBeforeSmoothingWitness ==
  /\ mcall.pc = "error" /\ mcall.what = "periods must not be empty"
  /\ mcall.mp.lambda_ = Some(Scale \div 2) /\ Len(mcall.x) = 5
  /\ mcall.work = <<2472, 4000, 828, 4000, -2000>>

\* The error of a nested STL parameter is one of those reached
C13_NestedErrorWitness ==
  /\ mcall.pc = "error" /\ mcall.what = "seasonal_degree must be 0 or 1"
  /\ mcall.seas_ids = <<3, 2>> /\ Len(mcall.fits) = 1 /\ mcall.fits[1].period = 2

\* trend + season as the loop of stl hands it to rwts after the pass e
passFit(e, n) == [i \in 1..n |-> FAdd(e.trend[i], e.season[i])]

\* C14: the outer loop of stl with loop counts ni and no runs exactly no + 1
\* passes of exactly ni inner iterations each; the first pass is unweighted,
\* each later pass uses the weights computed from the trend + seasonal fit of
\* the pass just before it; trend and seasonal carry over from pass to pass
\* without being reset; the weights are computed exactly no times and never
\* after the final pass, so the returned weights are those computed from the
\* fit of the second-to-last pass.
C14_OuterLoop ==
  (Called /\ call.pc \in {"onestp", "rwts", "return"})
  => LET ps == call.passes
         cur == ps[Len(ps)]
         rs == call.reweights
         no == call.d.no
     IN /\ call.k <= no + 1
        /\ Len(ps) = Min(call.k, 2)
        /\ call.nrw = (IF call.pc = "onestp" THEN call.k ELSE Max(call.k - 1, 0))
        /\ call.nrw <= no
        /\ call.userw <=> call.nrw > 0
        \* the pass just made
        /\ call.k >= 1
           => /\ cur.inner = call.d.ni
              /\ cur.userw <=> call.k >= 2
              /\ call.k = 1 => /\ cur.season0 = Zeros(call.n)
                               /\ cur.trend0 = Zeros(call.n)
              /\ call.k >= 2 => /\ cur.season0 = ps[1].season
                                /\ cur.trend0 = ps[1].trend
        \* the weights it used
        /\ (call.k >= 2 /\ call.pc # "onestp")
           => /\ cur.rw = rs[1].rw
              /\ call.n > 0 => rs[1].fit = passFit(ps[1], call.n)
        \* the weights computed from it
        /\ (call.k >= 1 /\ call.pc = "onestp")
           => /\ call.weights = rs[1].rw
              /\ call.n > 0 => rs[1].fit = passFit(cur, call.n)
        /\ Returned
           => /\ call.k = no + 1
              /\ call.nrw = no
              /\ call.seasonal = cur.season /\ call.trend = cur.trend
              /\ no >= 1 => call.weights = rs[1].rw

C14_OuterLoopWitness ==
  /\ Returned /\ call.n = 6 /\ call.period = 3
  /\ call.d.no = 1 /\ call.d.ni = 2
  /\ Len(call.passes) = 2 /\ call.nrw = 1
  /\ call.passes[2].rw = call.weights
  /\ call.weights # [i \in 1..6 |-> Scale]
  /\ call.passes[2].season # call.passes[1].season

\* The number of rounds the claim states for m
rounds(m) == IF Len(m.seas_ids) = 1 THEN 1 ELSE m.mp.iterate_

\* The running series after fit f of m: its input minus the seasonal it found
afterFit(m, f) ==
  [t \in 1..Len(m.x) |-> FSub(m.fits[f].y[t], m.fits[f].seasonal[t])]

\* C15: MSTL performs exactly R * |periods| STL fits, R = 1 for exactly one
\* period (whatever iteration count is set) and the configured iteration
\* count otherwise; in each round the periods are taken in ascending order; a
\* period's previous seasonal is added back to the running series only in
\* the rounds after the first, just before the fit of that period; and the
\* returned trend is the trend of the last fit (largest period, last round).
C15_FitSchedule ==
  (MCalled /\ mcall.pc \in {"fit", "return"})
  => LET K == Len(mcall.seas_ids)
         R == rounds(mcall)
         N == Len(mcall.fits)
     IN /\ mcall.iter = R
        /\ N = mcall.j * K + mcall.i
        /\ N <= R * K
        /\ MReturned => N = R * K
        /\ {mcall.indices[a] : a \in 1..K} = 1..K
        /\ \A a \in 1..(K - 1) :
             mcall.seas_ids[mcall.indices[a]] <= mcall.seas_ids[mcall.indices[a + 1]]
        /\ \A f \in 1..N :
             /\ mcall.fits[f].idx = mcall.indices[((f - 1) % K) + 1]
             /\ mcall.fits[f].period = mcall.seas_ids[mcall.fits[f].idx]
             /\ mcall.fits[f].y =
                  IF f = 1 THEN mcall.work
                  ELSE IF f <= K THEN afterFit(mcall, f - 1)
                  ELSE [t \in 1..Len(mcall.x) |->
                          FAdd(mcall.fits[f - K].seasonal[t], afterFit(mcall, f - 1)[t])]
        /\ (MReturned /\ N > 0)
           => /\ mcall.trend = mcall.fits[N].trend
              /\ \A a \in 1..K : mcall.seas_ids[a] <= mcall.fits[N].period
        /\ (MReturned /\ N = 0) => mcall.trend = <<>>

C15_FitScheduleWitness ==
  /\ MReturned /\ mcall.seas_ids = <<3, 2>> /\ mcall.mp.iterate_ = 2
  /\ Len(mcall.fits) = 4
  /\ mcall.fits[1].period = 2 /\ mcall.fits[2].period = 3
  /\ mcall.fits[3].period = 2 /\ mcall.fits[4].period = 3
  /\ mcall.fits[3].y # mcall.fits[1].y
  /\ mcall.fits[3].y # afterFit(mcall, 2)
  /\ mcall.trend = mcall.fits[4].trend /\ mcall.trend # mcall.fits[3].trend

\* One period with the iteration count set to 0: one fit all the same
C15_OnePeriodWitness ==
  /\ MReturned /\ mcall.seas_ids = <<2>> /\ mcall.mp.iterate_ = 0
  /\ Len(mcall.fits) = 1

\* The 0-based positions the period at idx may have in ascending order: one
\* position when the periods differ, any of its run when some are equal
ranks(m, idx) ==
  LET below == Cardinality({a \in 1..Len(m.seas_ids) : m.seas_ids[a] < m.seas_ids[idx]})
      equal == Cardinality({a \in 1..Len(m.seas_ids) : m.seas_ids[a] = m.seas_ids[idx]})
  IN below..(below + equal - 1)

\* The seasonal windows the claim allows for the period at idx
windows(m, idx) ==
  IF m.mp.swin.has_value THEN {m.mp.swin.value[idx]}
  ELSE IF has_value(m.mp.stl_params_.ns_) THEN {m.mp.stl_params_.ns_}
  ELSE {7 + 4 * (r + 1) : r \in ranks(m, idx)}

\* C16: for each STL fit inside MSTL the seasonal window is the caller's
\* seasonal_lengths entry at the index of the period in the caller's list if
\* seasonal_lengths is given; otherwise the seasonal length of the nested STL
\* parameters if it was set; otherwise 7 + 4 * (rank + 1), rank the 0-based
\* position of the period in ascending order.  A period gets the same window
\* in every round, and the choice for one period leaves the nested parameters
\* used for the other periods and rounds as they were.
C16_WindowPriority ==
  (MCalled /\ mcall.pc \in {"fit", "return"})
  => /\ mcall.mp = mparams
     /\ \A f \in 1..Len(mcall.fits) :
          LET e == mcall.fits[f] IN
          /\ e.ns_ \in windows(mcall, e.idx)
          /\ e.params = [mcall.mp.stl_params_ EXCEPT !.ns_ = e.ns_]
          /\ \A g \in 1..Len(mcall.fits) :
               mcall.fits[g].idx = e.idx => mcall.fits[g].ns_ = e.ns_
          /\ \A g \in 1..Len(mcall.fits) :
               (mcall.fits[g].idx # e.idx /\ ~mcall.mp.swin.has_value
                  /\ ~has_value(mcall.mp.stl_params_.ns_))
               => mcall.fits[g].ns_ # e.ns_

C16_WindowPriorityWitness ==
  /\ MReturned /\ mcall.seas_ids = <<3, 2>> /\ Len(mcall.fits) = 4
  /\ ~mcall.mp.swin.has_value /\ ~has_value(mcall.mp.stl_params_.ns_)
  /\ mcall.mp.stl_params_.no_ = 1
  /\ mcall.fits[1].period = 2 /\ mcall.fits[1].ns_ = 11
  /\ mcall.fits[2].period = 3 /\ mcall.fits[2].ns_ = 15
  /\ mcall.fits[3].ns_ = 11 /\ mcall.fits[4].ns_ = 15
  /\ mcall.fits[4].params.no_ = 1

\* seasonal_lengths goes before the seasonal length of the nested parameters
C16_OverrideWitness ==
  /\ MReturned /\ mcall.seas_ids = <<3, 2>> /\ Len(mcall.fits) = 4
  /\ mcall.mp.swin = Some(<<5, 7>>) /\ mcall.mp.stl_params_.ns_ = 5
  /\ mcall.fits[1].period = 2 /\ mcall.fits[1].ns_ = 7
  /\ mcall.fits[2].period = 3 /\ mcall.fits[2].ns_ = 5

\* The seasonal length of the nested parameters goes before the default
C16_NestedWitness ==
  /\ MReturned /\ mcall.seas_ids = <<2, 3>> /\ Len(mcall.fits) = 4
  /\ ~mcall.mp.swin.has_value /\ mcall.mp.stl_params_.ns_ = 5
  /\ \A f \in 1..4 : mcall.fits[f].ns_ = 5

\* ---------------------------------------------------- ess as a function

\* Bounds of the calls of ess
MaxEss == 8        \* sequences of length 1 .. MaxEss
MaxJump == 7       \* jumps 1 .. MaxJump

\* The window lengths stl hands to ess: odd and at least 3
EssLens == {3, 5, 7}

\* A call of ess(y, n, len, ideg, njump, false, rw, ys, res) about to be made
essCall(n, len, ideg, njump) ==
  [pc |-> "ess", y |-> Series(n), n |-> n, len |-> len, ideg |-> ideg,
   njump |-> njump, evals |-> <<>>, ys |-> <<>>]

\* The call made: the evaluations of est in the order of the calls, and ys
essReturn(c) ==
  [c EXCEPT !.pc = "essdone",
            !.evals = IF c.n < 2 THEN <<>> ELSE essEvals(c.n, c.len, c.njump),
            !.ys = ess(c.y, c.n, c.len, c.ideg, c.njump, FALSE, Zeros(c.n))]

EssInit ==
  /\ params = StlParams0 /\ nsets = 0 /\ mparams = MstlParams0 /\ mcall = Idle
  /\ \E n \in 1..MaxEss, len \in EssLens, ideg \in {0, 1}, njump \in 1..MaxJump :
       call = essCall(n, len, ideg, njump)

Ess ==
  /\ call.pc = "ess"
  /\ call' = essReturn(call)
  /\ UNCHANGED <<params, nsets, mparams, mcall>>

EssSpec == EssInit /\ [][Ess]_vars

\* The positions est was called for
evaluated(c) == {c.evals[e][1] : e \in 1..Len(c.evals)}

\* The window [nleft, nright] of evaluation e lies in 1..n, holds the
\* position evaluated and has min(len, n) points
windowAround(c, e) ==
  LET i == c.evals[e][1]
      nleft == c.evals[e][2]
      nright == c.evals[e][3]
  IN /\ 1 <= nleft /\ nleft <= i /\ i <= nright /\ nright <= c.n
     /\ nright - nleft + 1 = Min(c.len, c.n)

\* ys at j is the value on the line through the two nearest evaluated
\* positions, one on each side
interpolated(c, j) ==
  LET below == {p \in evaluated(c) : p < j}
      above == {p \in evaluated(c) : p > j}
  IN /\ below # {} /\ above # {}
     /\ LET lo == CHOOSE p \in below : \A q \in below : q <= p
            hi == CHOOSE p \in above : \A q \in above : p <= q
        IN c.ys[j] = FAdd(c.ys[lo],
                          FMulI(j - lo, FDivI(FSub(c.ys[hi], c.ys[lo]), hi - lo)))

\* Every position of ys has a value, from an evaluation or by interpolation
allAssigned(c) ==
  /\ Len(c.ys) = c.n
  /\ 1 \in evaluated(c) /\ c.n \in evaluated(c)
  /\ \A j \in 1..c.n : j \in evaluated(c) \/ interpolated(c, j)

\* C17: in ess on a sequence of length m >= 2 with window len and jump >= 1
\* every evaluation at a position i (each stride position and the last
\* position m evaluated again) uses a range [nleft, nright] with
\* 1 <= nleft <= i <= nright <= m and nright - nleft + 1 = min(len, m); and
\* when ess returns every position 1..m of the output has been assigned, by
\* an evaluation or by interpolation between the two nearest evaluated
\* positions.
C17_WindowAroundPosition ==
  (call.pc = "essdone" /\ call.n >= 2)
  => /\ \A e \in 1..Len(call.evals) : windowAround(call, e)
     /\ allAssigned(call)

\* What the code does: the stride positions have such a window and every
\* position is assigned; the evaluation of the last position made after the
\* loop uses the window the loop left at the last stride position k, which
\* holds position m only when k is within (len + 1) / 2 - 1 of m or len >= m.
C17_StrideWindows ==
  (call.pc = "essdone" /\ call.n >= 2)
  => LET newnj == Min(call.njump, call.n - 1)
         strides == ((call.n - 1) \div newnj) + 1
         k == (strides - 1) * newnj + 1
         nsh == (call.len + 1) \div 2
     IN /\ \A e \in 1..strides :
             /\ call.evals[e][1] = (e - 1) * newnj + 1
             /\ windowAround(call, e)
        /\ Len(call.evals) = (IF k = call.n THEN strides ELSE strides + 1)
        /\ k # call.n
           => /\ call.evals[strides + 1] =
                   <<call.n, call.evals[strides][2], call.evals[strides][3]>>
              /\ windowAround(call, strides + 1)
                   <=> (call.len >= call.n \/ k >= call.n - nsh + 1)
        /\ allAssigned(call)

C17_StaleWindowWitness ==
  /\ call.pc = "essdone" /\ call.n = 6 /\ call.len = 3 /\ call.njump = 3
  /\ call.evals = <<<<1, 1, 3>>, <<4, 3, 5>>, <<6, 3, 5>>>>

\* ------------------------------------------------- the index ranges of ss

\* size_t, narrowed to 16 bits: a difference below zero wraps to a value
\* far above the length of every buffer
SizeMod == 65536

\* k of ss for phase j: (n - j) / np + 1 on size_t
ssK(n, np, j) == (((n - j) % SizeMod) \div np) + 1

\* The loops of ss over i and m are followed up to the first index that is
\* off every buffer of n + 2 * np values
ssCut(n, np, k) == Min(k, n + 2 * np + 1)

\* The indices of y that ss reads: y[(i - 1) * np + j - 1]
ssReads(n, np) ==
  UNION {{(i - 1) * np + j - 1 : i \in 1..ssCut(n, np, ssK(n, np, j))} : j \in 1..np}

\* The indices of work1, work2 and work3 that ss writes for phase j:
\* work1[i - 1] and work3[i - 1], work2[0], work2 + 1 by ess, work2[k + 1]
ssWork(n, np) ==
  UNION {LET k == ssCut(n, np, ssK(n, np, j))
         IN {i - 1 : i \in 1..k} \cup {0} \cup {i : i \in 1..k} \cup {k + 1} :
         j \in 1..np}

\* The assignments season[(m - 1) * np + j - 1] = work2[m - 1] that hit index p
ssWrites(n, np, p) ==
  {jm \in UNION {{<<j, m>> : m \in 1..(ssCut(n, np, ssK(n, np, j)) + 2)} : j \in 1..np} :
     (jm[2] - 1) * np + jm[1] - 1 = p}

\* The number of values the three calls of ma by fts leave: newn = n - len + 1
maLen(n, len) == (n - len + 1) % SizeMod
ftsLen(n, np) == maLen(maLen(maLen(n, np), np), 3)

\* The cyclic sub-series hold the n observations between them
ssSplits(n, np) == ISum([j \in 1..np |-> ssK(n, np, j)], 1, np) = n

\* ss reads no y[i] with i >= n and writes no work buffer off its end
ssInBounds(n, np) ==
  /\ \A i \in ssReads(n, np) : i < n
  /\ \A i \in ssWork(n, np) : i < n + 2 * np

\* ss writes each of season[0 .. n + 2 * np - 1] once and nothing else
ssWritesOnce(n, np) ==
  /\ \A p \in 0..(n + 2 * np - 1) : Cardinality(ssWrites(n, np, p)) = 1
  /\ \A p \in (n + 2 * np)..(n + 4 * np + 2) : ssWrites(n, np, p) = {}

\* The call ran ss through all its phases at least once
ssRan(c) ==
  /\ c.pc \in {"onestp", "rwts", "return", "crash"}
  /\ c.d.ni > 0
  /\ c.pc = "crash" \/ c.passes # <<>>

\* C18: in every call that StlParams.fit accepts and that runs the seasonal
\* smoother, ss splits the n observations into np cyclic sub-series whose
\* lengths sum to n, writes each of the n + 2 * np positions of its output
\* exactly once, reads no input at an index >= n and writes no work buffer
\* at an index >= n + 2 * np, and fts then leaves exactly n values.
C18_SsIndices ==
  ssRan(call) =>
    /\ ssSplits(call.n, call.d.np)
    /\ ssWritesOnce(call.n, call.d.np)
    /\ ssInBounds(call.n, call.d.np)
    /\ ftsLen(call.n + 2 * call.d.np, call.d.np) = call.n

\* C18, for the calls with at least one observation per phase (n >= np, as
\* for every period >= 2 that passes the length check): the same statement
C18_FromFullCycle ==
  (ssRan(call) /\ call.n >= call.d.np) =>
    /\ ssSplits(call.n, call.d.np)
    /\ ssWritesOnce(call.n, call.d.np)
    /\ ssInBounds(call.n, call.d.np)
    /\ ftsLen(call.n + 2 * call.d.np, call.d.np) = call.n
    /\ Len(call.seasonal) = call.n

\* C18: a returned fit whose phases have different lengths (n = 5, np = 2)
C18_UnevenPhasesWitness ==
  /\ ssRan(call) /\ call.pc = "return"
  /\ call.n = 5 /\ call.d.np = 2
  /\ ssK(5, 2, 1) = 3 /\ ssK(5, 2, 2) = 2

\* C18: the low-pass filter always leaves n values, wrapped k or not
C18_FtsLength ==
  (Called /\ call.pc # "error") =>
    ftsLen(call.n + 2 * call.d.np, call.d.np) = call.n

====
